---- MODULE Spec2Model ----
(***************************************************************************)
(* A model of bevy_vox_scene: the voxel grid builder (load/voxel.rs), the  *)
(* voxel query interface (scene/queryable.rs), the two-pass scene graph    *)
(* flattener with model registration (load/parse_scene.rs, load/mod.rs)    *)
(* and the collection of generated models (model/mod.rs).                  *)
(*                                                                         *)
(* Conventions: an Option<T> is a sequence of length <= 1 (None is <<>>,   *)
(* Some(v) is <<v>>); a Vec indexed from 0 is a function on 0..n-1 when it *)
(* is indexed by computed integers (the voxel array) and a sequence        *)
(* otherwise, read through At(vec, i) with a 0-based i.                    *)
(***************************************************************************)
EXTENDS Integers, Sequences, FiniteSets, TLC

VARIABLES
    model_size,          \* dot_vox Model.size: [x, y, z], source axis convention
    model_voxels,        \* dot_vox Model.voxels: sequence of [x, y, z, i]
    translucent_voxels,  \* HashMap<u8, f32>: material index -> refractive index (tenths)
    data,                \* Option<VoxelData>: the grid load_from_model returned
    refraction_indices,  \* the Vec<f32> load_from_model returned
    writes,              \* history: the index computed for each sparse voxel, in order
    gphase,              \* "decoded", "built" or "panicked" (grid builder position)
    query,               \* the last voxel query made and its result
    scenes,              \* DotVoxData.scenes: the decoded scene-node list
    layers,              \* Vec<LayerInfo> built from DotVoxData.layers
    model_count,         \* file.models.len()
    model_names,         \* Vec<Option<String>>: the name pass 1 gave each model id
    xform_visits,        \* history: the Transforms pass 1 entered, in order
    shape_refs,          \* history: the Shapes pass 1 reached, in order
    scene,               \* the Scene parse_scene_graph returned for the root
    subassets,           \* HashSet<String>: names whose sub-scene was generated
    labeled,             \* LoadContext labeled assets, as the log of insertions
    lphase,              \* position in process_vox_file
    meshes,              \* what VoxLoader::process_vox_file made of the file
    voxel_size,          \* settings.voxel_size, the scale of the scene
    voxel_model,         \* Option<VoxelModel>: the model registered for the grid
    quads,               \* the quads the mesher emitted for the grid
    collections,         \* Assets<VoxelModelCollection>: the collections, by handle id
    materials,           \* Assets<StandardMaterial>: the materials, by handle id
    mesh_assets,         \* Assets<Mesh>: the meshes, by handle id
    add_call             \* the last VoxelModelCollection::add made and its result

gridvars == <<model_size, model_voxels, translucent_voxels, data,
              refraction_indices, writes, gphase, query, voxel_model, quads>>

scenevars == <<scenes, layers, model_count, model_names, xform_visits, shape_refs,
               scene, subassets, labeled, lphase, meshes, voxel_size>>

collvars == <<collections, materials, mesh_assets, add_call>>

vars == <<gridvars, scenevars, collvars>>

-----------------------------------------------------------------------------
(* Bounds of the model                                                     *)

\* model sizes have x + y + z <= MaxExtentSum (each component >= 1)
MaxExtentSum == 4
\* sparse voxel lists have at most MaxVoxels entries
MaxVoxels == 2

-----------------------------------------------------------------------------
(* Options and 0-based vectors                                             *)

None == <<>>
Some(v) == <<v>>
IsSome(o) == Len(o) = 1
Unwrap(o) == o[1]

At(vec, i) == vec[i + 1]

SeqsUpTo(S, n) == UNION {[1..k -> S] : k \in 0..n}
Min(a, b) == IF a <= b THEN a ELSE b

-----------------------------------------------------------------------------
(* u32 arithmetic                                                          *)
(* No number of the model reaches 2^31, so a u32 is held as its two's      *)
(* complement representative: the value v < 2^31 as v, and the value       *)
(* 2^32 - k that a wrapping subtraction produces as -k. A sum of           *)
(* representatives that is >= 0 while an operand is negative is a u32      *)
(* addition that overflowed (its wrapped value is the sum itself); a sum   *)
(* that stays negative stands for 2^32 + sum, above every array length.    *)

IsWrappedU32(n) == n < 0

-----------------------------------------------------------------------------
(* load/voxel.rs                                                           *)

\* EMPTY_VOXEL.index
EmptyIndex == 255
\* the padding the grid adds to each axis (one cell each side)
Padding == 2

Voxel(index, is_translucent) == [index |-> index, is_translucent |-> is_translucent]
EMPTY_VOXEL == Voxel(EmptyIndex, FALSE)

\* RuntimeShape::<u32, 3>::new(dims): dims is <<d0, d1, d2>>
RuntimeShapeNew(dims) ==
    [dims    |-> dims,
     strides |-> <<1, dims[1], dims[1] * dims[2]>>,
     size    |-> dims[1] * dims[2] * dims[3]]

\* Shape::linearize(p): p[0] + strides[1]*p[1] + strides[2]*p[2] in u32.
\* overflow tells whether an addition left the u32 range.
Linearize(shape, p) ==
    LET sum == p[1] + shape.strides[2] * p[2] + shape.strides[3] * p[3]
    IN  [val |-> sum,
         overflow |-> sum >= 0 /\ (IsWrappedU32(p[1]) \/ IsWrappedU32(p[2])
                                                     \/ IsWrappedU32(p[3]))]

\* the extents given to RuntimeShape::new in load_from_model
GridDims(size) == <<size.x + Padding, size.z + Padding, size.y + Padding>>

\* (a variant of VoxelCell that flips x within the unpadded size and adds no padding offset)
VoxelCellNoPadding(size, voxel) == <<size.x - voxel.x - 1, voxel.z, voxel.y>>
\* the coordinate handed to linearize for one sparse voxel
VoxelCell(size, voxel) == <<size.x - voxel.x, voxel.z + 1, voxel.y + 1>>

\* one iteration of the for_each closure of load_from_model.
\* overflow_checks: whether the build panics on integer overflow (debug) or wraps.
LoadVoxel(acc, shape, size, voxel, tv, overflow_checks) ==
    LET cell  == VoxelCell(size, voxel)
        lin   == Linearize(shape, cell)
        index == lin.val
        is_translucent == voxel.i \in DOMAIN tv
        iors  == IF is_translucent
                 THEN Append(acc.refraction_indices, tv[voxel.i])
                 ELSE acc.refraction_indices
    IN  IF acc.panic THEN acc
        ELSE IF overflow_checks /\ (IsWrappedU32(cell[1]) \/ lin.overflow)
        THEN [acc EXCEPT !.panic = TRUE]
        ELSE IF IsWrappedU32(index) \/ index >= shape.size
        THEN [acc EXCEPT !.panic = TRUE,
                         !.refraction_indices = iors,
                         !.writes = Append(acc.writes, index)]
        ELSE [voxels |-> [acc.voxels EXCEPT ![index] = Voxel(voxel.i, is_translucent)],
              refraction_indices |-> iors,
              writes |-> Append(acc.writes, index),
              panic |-> FALSE]

RECURSIVE LoadVoxels(_, _, _, _, _, _)
LoadVoxels(acc, shape, size, voxels, tv, overflow_checks) ==
    IF voxels = <<>> THEN acc
    ELSE LoadVoxels(LoadVoxel(acc, shape, size, Head(voxels), tv, overflow_checks),
                    shape, size, Tail(voxels), tv, overflow_checks)

\* load_from_model(model, translucent_voxels)
load_from_model(size, voxels, tv, overflow_checks) ==
    LET shape == RuntimeShapeNew(GridDims(size))
        start == [voxels |-> [i \in 0..(shape.size - 1) |-> EMPTY_VOXEL],
                  refraction_indices |-> <<>>,
                  writes |-> <<>>,
                  panic |-> FALSE]
        end   == LoadVoxels(start, shape, size, voxels, tv, overflow_checks)
    IN  [shape |-> shape, voxels |-> end.voxels,
         refraction_indices |-> end.refraction_indices,
         writes |-> end.writes, panic |-> end.panic]

-----------------------------------------------------------------------------
(* scene/queryable.rs                                                      *)

\* VoxelData::padding()
DataPadding(d) == Padding
\* VoxelData::size(): the unpadded extents of the grid
DataSize(d) == <<d.shape.dims[1] - DataPadding(d),
                 d.shape.dims[2] - DataPadding(d),
                 d.shape.dims[3] - DataPadding(d)>>

\* VoxelModel::size()
ModelSize(d) == DataSize(d)

\* f32 -> i32 `as` cast of the rational n/den: truncation toward zero
TruncateToI32(n, den) == IF n >= 0 THEN n \div den ELSE -((-n) \div den)

\* local points are given in halves, the unit of the 0.5 that scales the size:
\* <<a, b, c>> stands for (a/2, b/2, c/2)
HalfUnits == 2

\* local_point_to_voxel_space(local_point)
local_point_to_voxel_space(d, local_point) ==
    LET size == ModelSize(d)
        \* size * 0.5, in halves
        half_extents == <<size[1], size[2], size[3]>>
        voxel_position == <<local_point[1] + half_extents[1],
                            local_point[2] + half_extents[2],
                            local_point[3] + half_extents[3]>>
    IN  <<TruncateToI32(voxel_position[1], HalfUnits),
          TruncateToI32(voxel_position[2], HalfUnits),
          TruncateToI32(voxel_position[3], HalfUnits)>>

\* BitwiseComparable::less_than, greater_than_or_equal
less_than(a, b) == <<a[1] < b[1], a[2] < b[2], a[3] < b[3]>>
greater_than_or_equal(a, b) ==
    LET lt == less_than(a, b) IN <<~lt[1], ~lt[2], ~lt[3]>>
AnyOf(bv) == bv[1] \/ bv[2] \/ bv[3]

\* (a variant of point_in_model that compares against the size only)
point_in_model_no_sign_check(d, point) ==
    IF AnyOf(greater_than_or_equal(point, ModelSize(d))) THEN None ELSE Some(point)
\* point_in_model(point): Option<UVec3>
point_in_model(d, point) ==
    IF AnyOf(greater_than_or_equal(point, ModelSize(d))) THEN None
    ELSE IF point[1] < 0 \/ point[2] < 0 \/ point[3] < 0 THEN None  \* UVec3::try_from
    ELSE Some(point)

\* the conversion of a stored grid cell into the Voxel handed to the caller
VoxelFromRaw(raw) == raw

\* get_voxel_at_point(position): Option<Voxel>
get_voxel_at_point(d, position) ==
    LET in_model == point_in_model(d, position)
    IN  IF ~IsSome(in_model) THEN None
        ELSE LET leading_padding == DataPadding(d) \div 2
                 p     == Unwrap(in_model)
                 index == Linearize(d.shape, <<p[1] + leading_padding,
                                               p[2] + leading_padding,
                                               p[3] + leading_padding>>).val
             IN  IF index \in DOMAIN d.voxels
                 THEN Some(VoxelFromRaw(d.voxels[index]))
                 ELSE None

-----------------------------------------------------------------------------
(* load/mod.rs: the model registered for a grid                            *)

RECURSIVE SumOf(_)
SumOf(values) == IF values = <<>> THEN 0 ELSE Head(values) + SumOf(Tail(values))

\* the refractive index of a model: the arithmetic mean of the refractive indices
\* encountered, kept as the fraction sum/count; none when none was encountered
AverageIor(indices) ==
    IF indices = <<>> THEN None
    ELSE Some([sum |-> SumOf(indices), count |-> Len(indices)])

\* data.size().min_element()
MinElement(v) == Min(v[1], Min(v[2], v[3]))

\* (a variant of ModelMaterial that never switches transmission off)
ModelMaterialKeepsTransmission(ior, d) ==
    [specular_transmission |-> "palette", ior |-> ior,
     thickness |-> Some(MinElement(DataSize(d)))]
\* the material of a model (lines 169-184): the palette material with the model's
\* refractive index and thickness, or the palette material with transmission off
ModelMaterial(ior, d) ==
    IF IsSome(ior)
    THEN [specular_transmission |-> "palette", ior |-> ior,
          thickness |-> Some(MinElement(DataSize(d)))]
    ELSE [specular_transmission |-> "off", ior |-> None, thickness |-> None]

\* VoxelModel { data, material, has_translucency: ior.is_some(), .. }
VoxelModelOf(d, indices) ==
    LET ior == AverageIor(indices)
    IN  [has_translucency |-> IsSome(ior), ior |-> ior, material |-> ModelMaterial(ior, d)]

-----------------------------------------------------------------------------
(* Meshing: the Voxel traits of load/voxel.rs and the greedy mesher they   *)
(* feed. The mesher itself (model/mesh.rs handing the grid to              *)
(* block_mesh::greedy_quads) is not among the source files; it is modelled *)
(* after the greedy face merging the specification describes. What the     *)
(* traits provide is kept apart as the mesher keeps it apart: the merge    *)
(* value decides which faces merge, and the three visibility classes       *)
(* decide which faces are hidden (an Opaque neighbour hides every face, a  *)
(* Translucent neighbour hides the face of a Translucent voxel only).      *)

\* (a variant of get_visibility that takes index 0 for the empty sentinel)
get_visibility_zero_is_empty(voxel) ==
    CASE voxel.index = 0      -> "Empty"
      [] voxel.is_translucent -> "Translucent"
      [] OTHER                -> "Opaque"
\* impl BlockyVoxel for Voxel: get_visibility
get_visibility(voxel) ==
    CASE voxel.index = EmptyIndex -> "Empty"
      [] voxel.is_translucent     -> "Translucent"
      [] OTHER                    -> "Opaque"

\* (a variant of merge_value that forgets the material index)
merge_value_flag_only(voxel) == Voxel(0, voxel.is_translucent)
\* impl MergeVoxel for Voxel: merge_value
merge_value(voxel) == voxel

\* cells are <<c1, c2, c3>>, the coordinates along the three grid axes
VoxelAt(d, cell) == d.voxels[Linearize(d.shape, cell).val]
Step(cell, axis, k) == [cell EXCEPT ![axis] = @ + k]

\* the six face directions, and the in-slice axes u and v of a face normal to n_axis
Faces == <<[n_axis |-> 1, n_sign |-> -1], [n_axis |-> 2, n_sign |-> -1],
           [n_axis |-> 3, n_sign |-> -1], [n_axis |-> 1, n_sign |-> 1],
           [n_axis |-> 2, n_sign |-> 1],  [n_axis |-> 3, n_sign |-> 1]>>
UAxis(n_axis) == IF n_axis = 3 THEN 1 ELSE 3
VAxis(n_axis) == IF n_axis = 2 THEN 1 ELSE 2

\* the input of the mesher: the grid and the setting that tells whether outer faces
\* are meshed (VoxelData::from_model(&model, settings.mesh_outer_faces, ..))
MeshInput(d, mesh_outer_faces) ==
    [shape |-> d.shape, voxels |-> d.voxels, mesh_outer_faces |-> mesh_outer_faces]

\* the cell lies in the one-cell border of the grid
InPadding(d, cell) ==
    \E axis \in 1..3 : cell[axis] = 0 \/ cell[axis] = d.shape.dims[axis] - 1

\* whether the face of the voxel at cell needs a quad. The voxel is visible and not
\* yet covered by a quad of this sweep, and
\*  - its neighbour across the face is Empty; or
\*  - the neighbour is visible, the face is on the outer boundary of the model (the
\*    neighbour is a border cell) and outer faces are meshed; or
\*  - the neighbour is Translucent and the voxel is Opaque: a translucent voxel
\*    does not hide the opaque voxel behind it, which is what the class
\*    VoxelVisibility::Translucent of get_visibility tells the mesher. Two
\*    translucent voxels hide the face between them, like two opaque ones, and an
\*    opaque neighbour hides the face of a translucent voxel.
\* The border cells of a grid built from voxels within the model's size are all
\* Empty, so the second case decides nothing for such a grid: its outer faces are
\* faces towards an Empty neighbour.
face_needs_mesh(d, cell, face, visited) ==
    LET voxel         == VoxelAt(d, cell)
        adjacent_cell == Step(cell, face.n_axis, face.n_sign)
        adjacent      == VoxelAt(d, adjacent_cell)
    IN  IF get_visibility(voxel) = "Empty" \/ cell \in visited THEN FALSE
        ELSE IF get_visibility(adjacent) = "Empty" THEN TRUE
        ELSE IF d.mesh_outer_faces /\ InPadding(d, adjacent_cell) THEN TRUE
        ELSE IF get_visibility(adjacent) = "Translucent"
        THEN get_visibility(voxel) = "Opaque"
        ELSE FALSE

\* the number of cells from cell on along axis, at most max_width, whose face needs
\* a quad and whose merge value is quad_value
RECURSIVE get_row_width(_, _, _, _, _, _, _)
get_row_width(d, face, visited, quad_value, cell, axis, max_width) ==
    IF max_width = 0 THEN 0
    ELSE IF ~face_needs_mesh(d, cell, face, visited) THEN 0
    ELSE IF merge_value(VoxelAt(d, cell)) # quad_value THEN 0
    ELSE 1 + get_row_width(d, face, visited, quad_value, Step(cell, axis, 1), axis,
                           max_width - 1)

\* how many rows of full width quad_width follow each other along v
RECURSIVE QuadHeight(_, _, _, _, _, _, _, _)
QuadHeight(d, face, visited, quad_value, row_start, quad_width, quad_height, max_height) ==
    IF quad_height >= max_height THEN quad_height
    ELSE IF get_row_width(d, face, visited, quad_value, row_start, UAxis(face.n_axis),
                          quad_width) < quad_width
    THEN quad_height
    ELSE QuadHeight(d, face, visited, quad_value,
                    Step(row_start, VAxis(face.n_axis), 1), quad_width,
                    quad_height + 1, max_height)

\* the widest row along u from quad_min, then as many such rows along v as follow
find_quad(d, face, visited, quad_min, max_width, max_height) ==
    LET quad_value == merge_value(VoxelAt(d, quad_min))
        quad_width == get_row_width(d, face, visited, quad_value, quad_min,
                                    UAxis(face.n_axis), max_width)
    IN  <<quad_width,
          QuadHeight(d, face, visited, quad_value,
                     Step(quad_min, VAxis(face.n_axis), 1), quad_width, 1, max_height)>>

Quad(face, minimum, width, height) ==
    [face |-> face, minimum |-> minimum, width |-> width, height |-> height]
\* the cells whose face a quad covers
QuadCells(q) ==
    {Step(Step(q.minimum, UAxis(q.face.n_axis), a), VAxis(q.face.n_axis), b) :
        a \in 0..(q.width - 1), b \in 0..(q.height - 1)}

\* the cells inside the one-cell border of the grid, slice by slice along n_axis
\* and within a slice with the lower axis running fastest
InteriorCells(d, n_axis) ==
    LET ishape == [a \in 1..3 |-> d.shape.dims[a] - 2]
        lo     == IF n_axis = 1 THEN 2 ELSE 1
        hi     == IF n_axis = 3 THEN 2 ELSE 3
    IN  [k \in 1..(ishape[1] * ishape[2] * ishape[3]) |->
            [a \in 1..3 |->
                CASE a = lo -> 1 + ((k - 1) % ishape[lo])
                  [] a = hi -> 1 + (((k - 1) \div ishape[lo]) % ishape[hi])
                  [] OTHER  -> 1 + ((k - 1) \div (ishape[lo] * ishape[hi]))]]

\* the sweep of one face direction over the cells in order
RECURSIVE QuadsForCells(_, _, _, _, _)
QuadsForCells(d, face, cells, visited, found) ==
    IF cells = <<>> THEN found
    ELSE
    LET quad_min == Head(cells) IN
    IF ~face_needs_mesh(d, quad_min, face, visited)
    THEN QuadsForCells(d, face, Tail(cells), visited, found)
    ELSE
    LET max_width  == (d.shape.dims[UAxis(face.n_axis)] - 1) - quad_min[UAxis(face.n_axis)]
        max_height == (d.shape.dims[VAxis(face.n_axis)] - 1) - quad_min[VAxis(face.n_axis)]
        size       == find_quad(d, face, visited, quad_min, max_width, max_height)
        quad       == Quad(face, quad_min, size[1], size[2])
    IN  QuadsForCells(d, face, Tail(cells), visited \cup QuadCells(quad),
                      Append(found, quad))

greedy_quads_for_face(d, face) ==
    QuadsForCells(d, face, InteriorCells(d, face.n_axis), {}, <<>>)

\* the quads of the six face directions, in the order of Faces
RECURSIVE QuadsOfFaces(_, _)
QuadsOfFaces(d, k) ==
    IF k = 0 THEN <<>>
    ELSE QuadsOfFaces(d, k - 1) \o greedy_quads_for_face(d, Faces[k])
greedy_quads(d) == QuadsOfFaces(d, Len(Faces))

-----------------------------------------------------------------------------
(* Inputs of the grid builder                                              *)

ModelSizes ==
    {s \in [x : 1..MaxExtentSum, y : 1..MaxExtentSum, z : 1..MaxExtentSum] :
        s.x + s.y + s.z <= MaxExtentSum}

\* palette indices used by the sparse voxels: 1 is opaque, 2 has a refractive index
Materials == {1, 2}
PaletteIors == [m \in {2} |-> 13]

InBounds(size, v) == v.x < size.x /\ v.y < size.y /\ v.z < size.z

\* well-formed sparse voxels, and sparse voxels up to two cells past the model
InBoundsVoxels(size) ==
    [x : 0..(size.x - 1), y : 0..(size.y - 1), z : 0..(size.z - 1), i : Materials]
AnyVoxels(size) ==
    [x : 0..(size.x + 1), y : 0..(size.y + 1), z : 0..(size.z + 1), i : Materials]

\* lists of in-bounds voxels holding at most one malformed voxel, at any place
SparseLists(size) ==
    {l \in SeqsUpTo(AnyVoxels(size), MaxVoxels) :
        Cardinality({k \in 1..Len(l) : ~InBounds(size, l[k])}) <= 1}
ValidSparseLists(size) == SeqsUpTo(InBoundsVoxels(size), MaxVoxels)

\* the models that vary the refractive indices: a row of voxels, at most MaxTagged
\* of them, of an opaque material and three materials with a refractive index
\* (in tenths: 1.1, 1.3, 1.5)
MaxTagged == 3
RowSizes == {[x |-> n, y |-> 1, z |-> 1] : n \in 1..(MaxExtentSum - 2)}
TaggedIors == (2 :> 11) @@ (3 :> 13) @@ (4 :> 15)
RowVoxels(size) == [x : 0..(size.x - 1), y : {0}, z : {0}, i : 1..4]

\* the models that are meshed: every way to fill a box of at most MaxCells cells
\* with no voxel or a voxel of an opaque material (0, 1) or of the material with a
\* refractive index (2), and the slabs N x N x 1, N up to MaxSlab, of one material
MaxCells == 4
MaxSlab == 3
MeshMaterials == {0, 1, 2}
MeshSizes ==
    {s \in [x : 1..MaxCells, y : 1..MaxCells, z : 1..MaxCells] : s.x * s.y * s.z <= MaxCells}
SlabSizes ==
    UNION {{[x |-> n, y |-> n, z |-> 1], [x |-> n, y |-> 1, z |-> n],
            [x |-> 1, y |-> n, z |-> n]} : n \in 1..MaxSlab}
\* the sparse voxels of the cells k.. of a box filled as fill says, the cells
\* numbered with x running fastest
RECURSIVE SparseOf(_, _, _)
SparseOf(size, fill, k) ==
    IF k >= size.x * size.y * size.z THEN <<>>
    ELSE (IF IsSome(fill[k])
          THEN <<[x |-> k % size.x, y |-> (k \div size.x) % size.y,
                  z |-> k \div (size.x * size.y), i |-> Unwrap(fill[k])]>>
          ELSE <<>>)
         \o SparseOf(size, fill, k + 1)
Fills(size) ==
    [0..(size.x * size.y * size.z - 1) -> {None} \cup {Some(m) : m \in MeshMaterials}]

NoQuery == [kind |-> "none", local_point |-> <<0, 0, 0>>,
            position |-> <<0, 0, 0>>, result |-> None]

\* voxel-space points from one cell before the model to one cell past it
QueryPositions(size) ==
    {<<a, b, c>> : a \in (-1)..size[1], b \in (-1)..size[2], c \in (-1)..size[3]}
\* local points, in halves, whose voxel position runs from -1.0 to size
LocalPoints(size) ==
    {<<a, b, c>> : a \in (-size[1] - 2)..size[1],
                   b \in (-size[2] - 2)..size[2],
                   c \in (-size[3] - 2)..size[3]}

-----------------------------------------------------------------------------
(* load/parse_scene.rs: scene nodes                                        *)

\* dot_vox::SceneNode, one record shape for the three variants. name and hidden are
\* attributes.get("_name") and attributes.get("_hidden"); child, children and the
\* model ids are 0-based indices.
TransformNode(name, hidden, child, layer_id, frames) ==
    [kind |-> "Transform", name |-> name, hidden |-> hidden, child |-> child,
     layer_id |-> layer_id, frames |-> frames, children |-> <<>>, models |-> <<>>]
GroupNode(children) ==
    [kind |-> "Group", name |-> None, hidden |-> None, child |-> 0,
     layer_id |-> 0, frames |-> <<>>, children |-> children, models |-> <<>>]
ShapeNode(models) ==
    [kind |-> "Shape", name |-> None, hidden |-> None, child |-> 0,
     layer_id |-> 0, frames |-> <<>>, children |-> <<>>, models |-> models]

\* (variants of get_accumulated_and_node_name: one hands a named child its own name
\* instead of the joined path, one passes no parent name through an unnamed node)
get_accumulated_and_node_name_own_name(parent_name, node_name) ==
    CASE ~IsSome(parent_name) /\ ~IsSome(node_name) -> <<None, None>>
      [] ~IsSome(parent_name) /\ IsSome(node_name)  -> <<node_name, node_name>>
      [] IsSome(parent_name)  /\ ~IsSome(node_name) -> <<parent_name, None>>
      [] IsSome(parent_name)  /\ IsSome(node_name)  ->
            LET accumulated == Unwrap(parent_name) \o "/" \o Unwrap(node_name)
            IN  <<Some(accumulated), node_name>>
get_accumulated_and_node_name_no_pass_down(parent_name, node_name) ==
    CASE ~IsSome(parent_name) /\ ~IsSome(node_name) -> <<None, None>>
      [] ~IsSome(parent_name) /\ IsSome(node_name)  -> <<node_name, node_name>>
      [] IsSome(parent_name)  /\ ~IsSome(node_name) -> <<None, None>>
      [] IsSome(parent_name)  /\ IsSome(node_name)  ->
            LET accumulated == Unwrap(parent_name) \o "/" \o Unwrap(node_name)
            IN  <<Some(accumulated), Some(accumulated)>>
\* get_accumulated_and_node_name(parent_name, node_name): <<accumulated, node_name>>
get_accumulated_and_node_name(parent_name, node_name) ==
    CASE ~IsSome(parent_name) /\ ~IsSome(node_name) -> <<None, None>>
      [] ~IsSome(parent_name) /\ IsSome(node_name)  -> <<node_name, node_name>>
      [] IsSome(parent_name)  /\ ~IsSome(node_name) -> <<parent_name, None>>
      [] IsSome(parent_name)  /\ IsSome(node_name)  ->
            LET accumulated == Unwrap(parent_name) \o "/" \o Unwrap(node_name)
            IN  <<Some(accumulated), Some(accumulated)>>

\* parse_bool(value)
parse_bool(value) ==
    CASE value = Some("1") -> TRUE
      [] value = Some("0") -> FALSE
      [] IsSome(value)     -> FALSE   \* "Invalid boolean string"
      [] OTHER             -> FALSE

\* transform_from_frame(frame, scene_scale), reduced to its translation column:
\* (-x, z, y) * scene_scale, the identity (no translation) for a frame without position
IdentityTransform == <<0, 0, 0>>
transform_from_frame(frame, scene_scale) ==
    IF ~IsSome(frame.position) THEN IdentityTransform
    ELSE LET position == Unwrap(frame.position)
         IN  <<(-position[1]) * scene_scale, position[3] * scene_scale,
               position[2] * scene_scale>>

\* (a variant of FirstFrame that takes the last frame)
LastFrame(frames) == frames[Len(frames)]
\* &frames[0]
FirstFrame(frames) == frames[1]

-----------------------------------------------------------------------------
(* Pass 1: find_model_names                                                *)

\* (a variant of AssignModelName that keeps the first name a model was given)
AssignOnlyWhenUnnamed(current, node_name) ==
    IF IsSome(node_name) /\ ~IsSome(current) THEN node_name ELSE current
\* the assignment made when a Shape is reached (the match on lines 54-59)
AssignModelName(current, node_name) ==
    IF IsSome(node_name) THEN node_name ELSE current

\* st is [name_for_model, xform_visits, shape_refs, panic]
RECURSIVE find_model_names(_, _, _, _)
RECURSIVE FindInGrandchildren(_, _, _, _)

FindInGrandchildren(st, graph, children, accumulated) ==
    IF children = <<>> \/ st.panic THEN st
    ELSE IF Head(children) >= Len(graph)           \* graph[*grandchild as usize]
    THEN [st EXCEPT !.panic = TRUE]
    ELSE FindInGrandchildren(
             find_model_names(st, graph, Head(children), accumulated),
             graph, Tail(children), accumulated)

find_model_names(st, graph, index, parent_name) ==
    LET scene_node == At(graph, index) IN
    IF st.panic \/ scene_node.kind # "Transform" THEN st
    ELSE
    LET names       == get_accumulated_and_node_name(parent_name, scene_node.name)
        accumulated == names[1]
        node_name   == names[2]
        entered     == [st EXCEPT !.xform_visits =
                           Append(@, [node |-> index, accumulated |-> accumulated,
                                      node_name |-> node_name])]
    IN  IF scene_node.child >= Len(graph)          \* graph[*child as usize]
        THEN [entered EXCEPT !.panic = TRUE]
        ELSE
        LET child == At(graph, scene_node.child) IN
        CASE child.kind = "Group" ->
                FindInGrandchildren(entered, graph, child.children, accumulated)
          [] child.kind = "Shape" ->
                IF child.models = <<>>              \* models[0]
                THEN [entered EXCEPT !.panic = TRUE]
                ELSE
                LET model_id == child.models[1] IN
                IF model_id >= Len(entered.name_for_model)
                THEN [entered EXCEPT !.panic = TRUE]
                ELSE
                LET before == At(entered.name_for_model, model_id)
                    after  == AssignModelName(before, node_name)
                IN  [entered EXCEPT
                        !.name_for_model[model_id + 1] = after,
                        !.shape_refs =
                            Append(@, [xform |-> index, shape |-> scene_node.child,
                                       model_id |-> model_id,
                                       accumulated |-> accumulated,
                                       node_name |-> node_name,
                                       before |-> before, after |-> after])]
          [] OTHER -> entered

-----------------------------------------------------------------------------
(* Pass 2: parse_scene_graph, load_xform_node, load_xform_child            *)

\* An entity of the built world. transform, visibility, name, layer and model are
\* its components (None when absent); source is the scene node it was spawned for
\* and origin tells which code path spawned it.
SpawnEmpty(source, origin) ==
    [source |-> source, origin |-> origin, transform |-> None, visibility |-> None,
     name |-> None, layer |-> None, model |-> None, children |-> <<>>]

\* SpatialBundle::default() and the spatial part of PbrBundle { ..default() }
InsertSpatialDefault(node) ==
    [node EXCEPT !.transform = Some(IdentityTransform), !.visibility = Some("Inherited")]

\* the model name a Shape is referenced by
ShapeModelName(names, model_id) ==
    IF IsSome(At(names, model_id))
    THEN Unwrap(At(names, model_id))
    ELSE "model-" \o ToString(model_id)

\* layers.get(layer_id), the VoxelLayer component and the visibility (lines 162-176)
MaybeLayer(layer_table, layer_id) ==
    IF layer_id < Len(layer_table) THEN Some(At(layer_table, layer_id)) ELSE None
\* (a variant of XformVisibility that ignores the layer)
OwnHiddenOnly(scene_node, layer_table) ==
    IF parse_bool(scene_node.hidden) THEN "Hidden" ELSE "Inherited"
XformVisibility(scene_node, layer_table) ==
    LET maybe_layer     == MaybeLayer(layer_table, scene_node.layer_id)
        node_is_hidden  == parse_bool(scene_node.hidden)
        layer_is_hidden == IF IsSome(maybe_layer) THEN Unwrap(maybe_layer).is_hidden
                           ELSE FALSE
    IN  IF node_is_hidden \/ layer_is_hidden THEN "Hidden" ELSE "Inherited"
InsertLayerAndVisibility(node, scene_node, layer_table) ==
    LET maybe_layer == MaybeLayer(layer_table, scene_node.layer_id) IN
    [node EXCEPT
        !.layer = IF IsSome(maybe_layer)
                  THEN Some([id |-> scene_node.layer_id, name |-> Unwrap(maybe_layer).name])
                  ELSE None,
        !.visibility = Some(XformVisibility(scene_node, layer_table))]

\* (a variant of SubassetsInsert that reports every name as new)
SubassetsInsertAlways(set, label) == TRUE
\* the result of subassets.insert(node_name): true when the name was not in the set
SubassetsInsert(set, label) == label \notin set

\* an entry of the labeled-asset log
SceneAsset(label, built) ==
    [label |-> label, kind |-> "scene", index |-> 0, name |-> label, scene |-> built]
ModelAsset(label, kind, index, name) ==
    [label |-> label, kind |-> kind, index |-> index, name |-> name, scene |-> <<>>]

\* ctx is [subassets, labeled, panic]; the operators return [ctx, node] or [ctx, scene]
RECURSIVE parse_scene_graph(_, _, _, _, _, _, _)
RECURSIVE load_xform_node(_, _, _, _, _, _, _)
RECURSIVE load_xform_child(_, _, _, _, _, _, _, _)
RECURSIVE LoadGroupChildren(_, _, _, _, _, _, _, _)

\* the `for child in children` loop of load_xform_child
LoadGroupChildren(ctx, graph, children, node, parent_name, names, layer_table, scene_scale) ==
    IF children = <<>> \/ ctx.panic THEN [ctx |-> ctx, node |-> node]
    ELSE IF Head(children) >= Len(graph)            \* graph[*child as usize]
    THEN [ctx |-> [ctx EXCEPT !.panic = TRUE], node |-> node]
    ELSE LET r == load_xform_node(ctx, graph, Head(children), parent_name, names,
                                  layer_table, scene_scale)
         IN  LoadGroupChildren(r.ctx, graph, Tail(children),
                               [node EXCEPT !.children = Append(@, r.node)],
                               parent_name, names, layer_table, scene_scale)

load_xform_child(ctx, graph, index, node, parent_name, names, layer_table, scene_scale) ==
    LET scene_node == At(graph, index) IN
    CASE scene_node.kind = "Transform" ->           \* "Found nested Transform nodes"
            LET r == load_xform_node(ctx, graph, index, parent_name, names, layer_table, scene_scale)
            IN  [ctx  |-> r.ctx,
                 node |-> [InsertSpatialDefault(node) EXCEPT
                              !.children = IF r.ctx.panic THEN @ ELSE Append(@, r.node)]]
      [] scene_node.kind = "Group" ->
            LoadGroupChildren(ctx, graph, scene_node.children,
                              InsertSpatialDefault(node), parent_name, names, layer_table, scene_scale)
      [] OTHER ->                                   \* Shape
            IF scene_node.models = <<>>             \* models[0]
            THEN [ctx |-> [ctx EXCEPT !.panic = TRUE], node |-> node]
            ELSE
            LET model_id == scene_node.models[1] IN
            IF model_id >= Len(names)               \* model_names[model_id]
            THEN [ctx |-> [ctx EXCEPT !.panic = TRUE], node |-> node]
            ELSE
            LET model_name == ShapeModelName(names, model_id) IN
            [ctx  |-> ctx,
             node |-> [InsertSpatialDefault(node) EXCEPT
                          !.model = Some([mesh     |-> model_name \o "@mesh",
                                          material |-> model_name \o "@material",
                                          model    |-> model_name \o "@model",
                                          shape    |-> index,
                                          parent_name |-> parent_name])]]

load_xform_node(ctx, graph, index, parent_name, names, layer_table, scene_scale) ==
    LET scene_node == At(graph, index) IN
    IF scene_node.kind # "Transform"
    THEN \* "Found Group or Shape Node without a parent Transform"
         load_xform_child(ctx, graph, index, SpawnEmpty(index, "wrapper"),
                          parent_name, names, layer_table, scene_scale)
    ELSE
    LET acc_names   == get_accumulated_and_node_name(parent_name, scene_node.name)
        accumulated == acc_names[1]
        node_name   == acc_names[2]
        spawned     == SpawnEmpty(index, "xform")
    IN  IF scene_node.child >= Len(graph)           \* graph[*child as usize]
        THEN [ctx |-> [ctx EXCEPT !.panic = TRUE], node |-> spawned]
        ELSE
        LET r == load_xform_child(ctx, graph, scene_node.child, spawned, accumulated,
                                  names, layer_table, scene_scale)
        IN  IF r.ctx.panic THEN r
            ELSE IF scene_node.frames = <<>>        \* frames[0]
            THEN [ctx |-> [r.ctx EXCEPT !.panic = TRUE], node |-> r.node]
            ELSE
            LET placed == [r.node EXCEPT !.transform =
                              Some(transform_from_frame(FirstFrame(scene_node.frames),
                                                        scene_scale))]
                shown  == InsertLayerAndVisibility(placed, scene_node, layer_table)
            IN  IF ~IsSome(node_name) THEN [ctx |-> r.ctx, node |-> shown]
                ELSE
                LET named == [shown EXCEPT !.name = node_name]
                    label == Unwrap(node_name)
                IN  IF ~SubassetsInsert(r.ctx.subassets, label)
                    THEN [ctx |-> r.ctx, node |-> named]
                    ELSE \* context.labeled_asset_scope(node_name, parse_scene_graph(..))
                    LET inner == parse_scene_graph(
                                     [r.ctx EXCEPT !.subassets = @ \cup {label}],
                                     graph, index, parent_name, names, layer_table, scene_scale)
                    IN  [ctx  |-> IF inner.ctx.panic THEN inner.ctx
                                  ELSE [inner.ctx EXCEPT !.labeled =
                                           Append(@, SceneAsset(label, inner.scene))],
                         node |-> named]

\* the Scene is the sequence of the root entities of its world
parse_scene_graph(ctx, graph, index, parent_name, names, layer_table, scene_scale) ==
    LET scene_node == At(graph, index) IN
    IF scene_node.kind # "Transform" THEN [ctx |-> ctx, scene |-> <<>>]
    ELSE
    LET acc_names   == get_accumulated_and_node_name(parent_name, scene_node.name)
        accumulated == acc_names[1]
        node_name   == acc_names[2]
        spawned     == SpawnEmpty(index, "root")
    IN  IF scene_node.child >= Len(graph)           \* graph[*child as usize]
        THEN [ctx |-> [ctx EXCEPT !.panic = TRUE], scene |-> <<>>]
        ELSE
        LET r == load_xform_child(ctx, graph, scene_node.child, spawned, accumulated,
                                  names, layer_table, scene_scale)
            shown == InsertLayerAndVisibility(r.node, scene_node, layer_table)
            named == IF IsSome(node_name) THEN [shown EXCEPT !.name = node_name]
                     ELSE shown
        IN  IF r.ctx.panic THEN [ctx |-> r.ctx, scene |-> <<>>]
            ELSE [ctx |-> r.ctx, scene |-> <<named>>]

-----------------------------------------------------------------------------
(* load/mod.rs: VoxSceneLoader::process_vox_file                           *)

\* the name a model is registered under (line 162)
RegisteredModelName(names, index) ==
    IF IsSome(At(names, index)) THEN Unwrap(At(names, index))
    ELSE "model-" \o ToString(index)

\* the for_each over model_names.iter().zip(file.models).enumerate()
RECURSIVE RegisterModelsFrom(_, _, _, _)
RegisterModelsFrom(log, names, count, index) ==
    IF index >= Len(names) \/ index >= count THEN log
    ELSE LET name == RegisteredModelName(names, index)
         IN  RegisterModelsFrom(
                 log \o <<ModelAsset(name \o "@mesh", "mesh", index, name),
                          ModelAsset(name \o "@material", "material", index, name),
                          ModelAsset(name \o "@model", "model", index, name)>>,
                 names, count, index + 1)

-----------------------------------------------------------------------------
(* loader.rs: VoxLoader::process_vox_file                                  *)

\* the loop over file.models.iter().enumerate(): the mesh of model 0 becomes the
\* default asset, the mesh of every other model a labeled asset "model{index}"
RECURSIVE VoxLoaderMeshes(_, _, _)
VoxLoaderMeshes(st, count, index) ==
    IF index >= count THEN st
    ELSE VoxLoaderMeshes(
             IF index = 0 THEN [st EXCEPT !.default_mesh = Some(index)]
             ELSE [st EXCEPT !.labeled =
                      Append(@, [label |-> "model" \o ToString(index), index |-> index])],
             count, index + 1)
\* Ok(default_mesh) or the error "No models found in vox file"
VoxLoaderProcessVoxFile(count) ==
    LET st == VoxLoaderMeshes([default_mesh |-> None, labeled |-> <<>>], count, 0)
    IN  [ok |-> IsSome(st.default_mesh), default_mesh |-> st.default_mesh,
         labeled |-> st.labeled]

-----------------------------------------------------------------------------
(* Inputs of the scene graph flattener                                     *)

\* a scene graph has at most MaxXforms Transform nodes
MaxXforms == 3
\* the scene graphs that vary the visibility attributes have at most MaxVisXforms
MaxVisXforms == 2
\* a Group has at most MaxChildren children
MaxChildren == 2
\* the file holds MaxModels models
MaxModels == 2
\* the layer table holds MaxLayers layers
MaxLayers == 2

\* every Transform of the inputs has one frame
DefaultFrames == <<[position |-> Some(<<1, 2, 3>>)]>>

\* The shapes of well-formed scene-node lists (a Transform holds a Group or a Shape,
\* a Group holds Transforms), listed in breadth-first order from the root Transform
\* at index 0; every Transform has exactly one child, so a list of at most n
\* Transforms has at most 2n nodes.
\* graph: the nodes listed so far; expect: for every index handed out so far, whether
\* it must hold a Transform ("xform") or a Transform's child ("child").
RECURSIVE CompleteGraphs(_, _, _)
CompleteGraphs(graph, expect, max_nodes) ==
    IF Len(graph) = Len(expect) THEN {graph}
    ELSE
    LET next == Len(expect) IN
    IF expect[Len(graph) + 1] = "xform"
    THEN IF next + 1 > max_nodes THEN {}
         ELSE CompleteGraphs(
                  Append(graph, TransformNode(None, None, next, 0, DefaultFrames)),
                  Append(expect, "child"), max_nodes)
    ELSE (UNION {CompleteGraphs(
                    Append(graph, GroupNode([k \in 1..n |-> next + k - 1])),
                    expect \o [k \in 1..n |-> "xform"], max_nodes) :
                 n \in 0..Min(MaxChildren, max_nodes - next)})
         \cup CompleteGraphs(Append(graph, ShapeNode(<<0>>)), expect, max_nodes)

GraphShapes(max_xforms) == CompleteGraphs(<<>>, <<"xform">>, 2 * max_xforms)

\* the graph of shape g whose Transforms carry the attributes f gives them and whose
\* Shapes reference the model ids m gives them
Decorate(g, f, m) ==
    [i \in 1..Len(g) |->
        CASE g[i].kind = "Transform" ->
                [g[i] EXCEPT !.name = f[i].name, !.hidden = f[i].hidden,
                             !.layer_id = f[i].layer_id]
          [] g[i].kind = "Shape" -> [g[i] EXCEPT !.models = <<m[i]>>]
          [] OTHER -> g[i]]
NodesOfKind(g, kind) == {i \in 1..Len(g) : g[i].kind = kind}

NodeNames == {"A", "model-1"}
NameOptions == {None} \cup {Some(n) : n \in NodeNames}
HiddenOptions == {None, Some("0"), Some("1"), Some("x")}

NamingAttrs == [name : NameOptions, hidden : {None}, layer_id : {0}]
\* layer ids 0..MaxLayers-1 are in the layer table, MaxLayers is not
VisibilityAttrs == [name : {None}, hidden : HiddenOptions, layer_id : 0..MaxLayers]

\* Arbitrary scene-node lists of at most MaxListLen nodes: any node kind at any
\* index, Transforms with and without a frame, Shapes with no model entry or a model
\* id outside the file's models. A child index points at a later node or, when it
\* equals the length of the list, outside the list.
MaxListLen == 3
RECURSIVE IncreasingSeqs(_, _, _)
IncreasingSeqs(lo, hi, max_len) ==
    IF max_len = 0 \/ lo > hi THEN {<<>>}
    ELSE {<<>>} \cup UNION {{<<v>> \o rest : rest \in IncreasingSeqs(v + 1, hi, max_len - 1)} :
                            v \in lo..hi}
AnyNodeAt(i, n) ==
    {TransformNode(name, None, child, 0, frames) :
        name \in {None, Some("A")}, child \in (i + 1)..n, frames \in {<<>>, DefaultFrames}}
    \cup {GroupNode(children) : children \in IncreasingSeqs(i + 1, n, MaxChildren)}
    \cup {ShapeNode(models) : models \in {<<>>, <<0>>, <<MaxModels>>}}
RECURSIVE AnyNodeLists(_, _)
AnyNodeLists(prefix, n) ==
    IF Len(prefix) = n THEN {prefix}
    ELSE UNION {AnyNodeLists(Append(prefix, node), n) : node \in AnyNodeAt(Len(prefix), n)}

\* the frame lists of the inputs that vary the frames: one frame, two different
\* frames in either order, a frame without position
FrameOptions ==
    {<<[position |-> Some(<<1, 2, 3>>)]>>,
     <<[position |-> Some(<<1, 2, 3>>)], [position |-> Some(<<4, 5, 6>>)]>>,
     <<[position |-> Some(<<4, 5, 6>>)], [position |-> Some(<<1, 2, 3>>)]>>,
     <<[position |-> None]>>}
FrameAttrs == [name : {None, Some("A")}, hidden : {None}, layer_id : {0}]
WithFrames(g, frames) ==
    [i \in 1..Len(g) |->
        IF g[i].kind = "Transform" THEN [g[i] EXCEPT !.frames = frames[i]] ELSE g[i]]

LayerInfo(name, is_hidden) == [name |-> name, is_hidden |-> is_hidden]
DefaultLayers == <<LayerInfo(Some("L"), FALSE)>>
\* a table of MaxLayers layers: the even ids are visible, the odd ids hidden
MixedLayers == [k \in 1..MaxLayers |-> LayerInfo(Some("L"), (k - 1) % 2 = 1)]

-----------------------------------------------------------------------------
(* model/mod.rs: the collection of generated models                        *)
(* An Assets<T> store is the sequence of the assets added to it and a      *)
(* Handle<T> is the 0-based position of its asset; a handle whose position *)
(* holds no asset does not resolve. A HashMap is a function on its keys.   *)

\* at most MaxCollections collections are created
MaxCollections == 2
\* at most MaxAdds calls of add are made
MaxAdds == 3

\* Assets::add: the store with the asset appended, and its handle
AssetsAdd(assets, asset) == [assets |-> Append(assets, asset), handle |-> Len(assets)]
\* Assets::get / Assets::get_mut
AssetsGet(assets, handle) ==
    IF handle \in 0..(Len(assets) - 1) THEN Some(At(assets, handle)) ELSE None

\* (a variant of HashMapInsert that keeps the value of a key already present)
HashMapInsertIfAbsent(map, key, value) == map @@ (key :> value)
\* HashMap::insert: the value of a key already present is replaced
HashMapInsert(map, key, value) == (key :> value) @@ map
\* HashMap::get
HashMapGet(map, key) == IF key \in DOMAIN map THEN Some(map[key]) ELSE None
\* HashMap::new()
HashMapNew == [key \in {} |-> 0]

\* new_collection(palette): the palette material with transmission off and the
\* palette material are added to the materials, the empty collection to the
\* collections
new_collection(palette, mats, colls) ==
    LET material        == [specular_transmission |-> "palette", ior |-> None,
                            thickness |-> None]
        opaque_material == [material EXCEPT !.specular_transmission = "off"]
        opaque          == AssetsAdd(mats, opaque_material)
        transmissive    == AssetsAdd(opaque.assets, material)
        collection      == [palette               |-> palette,
                            models                |-> <<>>,
                            index_for_model_name  |-> HashMapNew,
                            opaque_material       |-> opaque.handle,
                            transmissive_material |-> transmissive.handle]
        added           == AssetsAdd(colls, collection)
    IN  [materials |-> transmissive.assets, collections |-> added.assets,
         handle |-> added.handle]

\* data.remesh(indices_of_refraction): the mesh of the data and the mean of the
\* refractive indices of its voxels whose material has one
remesh(d, indices_of_refraction) ==
    LET tagged == SelectSeq(d.voxels, LAMBDA m : m \in DOMAIN indices_of_refraction)
    IN  [mesh        |-> [size |-> d.size, voxels |-> d.voxels],
         average_ior |-> AverageIor([k \in 1..Len(tagged) |->
                                        indices_of_refraction[tagged[k]]])]

\* add_model((data, name, collection_handle)): None and no change when the
\* collection handle, or the collection's transmissive material, does not resolve;
\* otherwise the model is pushed and its name mapped to its position
add_model(d, name, collection_handle, meshes_in, mats, colls) ==
    LET unchanged  == [result |-> None, mesh_assets |-> meshes_in, materials |-> mats,
                       collections |-> colls]
        found      == AssetsGet(colls, collection_handle)
        collection == Unwrap(found)
        remeshed   == remesh(d, collection.palette.indices_of_refraction)
        base       == AssetsGet(mats, collection.transmissive_material)
        transmissive_material ==
            [Unwrap(base) EXCEPT !.ior = remeshed.average_ior,
                                 !.thickness = Some(MinElement(d.size))]
        new_material == AssetsAdd(mats, transmissive_material)
        translucent  == IsSome(remeshed.average_ior)
        mesh         == AssetsAdd(meshes_in, remeshed.mesh)
        model        == [name             |-> name,
                         data             |-> d,
                         mesh             |-> mesh.handle,
                         material         |-> IF translucent THEN new_material.handle
                                              ELSE collection.opaque_material,
                         has_translucency |-> translucent]
        index        == Len(collection.models)
        updated      == [collection EXCEPT
                            !.index_for_model_name = HashMapInsert(@, name, index),
                            !.models = Append(@, model)]
    IN  IF ~IsSome(found) THEN unchanged
        ELSE IF translucent /\ ~IsSome(base) THEN unchanged
        ELSE [result      |-> Some(model),
              mesh_assets |-> mesh.assets,
              materials   |-> IF translucent THEN new_material.assets ELSE mats,
              collections |-> [colls EXCEPT ![collection_handle + 1] = updated]]

\* VoxelModelCollection::model(name)
model(collection, name) ==
    LET id == HashMapGet(collection.index_for_model_name, name)
    IN  IF ~IsSome(id) THEN None
        ELSE IF Unwrap(id) \in 0..(Len(collection.models) - 1)
        THEN Some(At(collection.models, Unwrap(id)))
        ELSE None

\* the palettes of the collections: the refractive indices by material index
CollectionPalettes == {[indices_of_refraction |-> PaletteIors],
                       [indices_of_refraction |-> TaggedIors]}
\* the voxel data handed to add: the size and the material index of each voxel
CollectionDatas == {[size |-> <<1, 1, 1>>, voxels |-> <<1>>],
                    [size |-> <<3, 1, 2>>, voxels |-> <<2, 1, 4>>]}
ModelNames == {"a", "b"}
\* the handles add is called with: the last one never resolves
CollectionHandles == 0..MaxCollections

NoAdd == [seq |-> 0, name |-> "", collection_handle |-> 0, result |-> None]

-----------------------------------------------------------------------------
(* Initial values                                                          *)

\* no model has been built and no query made
GridInitCommon ==
    /\ translucent_voxels = PaletteIors
    /\ data = None
    /\ refraction_indices = <<>>
    /\ writes = <<>>
    /\ gphase = "decoded"
    /\ query = NoQuery
    /\ voxel_model = None
    /\ quads = <<>>

\* let settings = self.global_settings.clone().unwrap_or(settings.clone()) (line 105)
EffectiveSettings(global_settings, settings) ==
    IF IsSome(global_settings) THEN Unwrap(global_settings) ELSE settings
\* the loader settings of a load: voxel_size 1 is the default; sizes are whole numbers
LoaderSettings == {[voxel_size |-> 1], [voxel_size |-> 2]}
\* the global settings of the loader, if any
GlobalSettings == {None, Some([voxel_size |-> 2])}

\* the materials registered before the scene graph is reached (lines 114-127): the
\* shared opaque material and, when the palette's emission varies per element
\* (palette.emission == MaterialProperty::VariesPerElement), the material without
\* emission
RegisterMaterials(emission_varies_per_element) ==
    <<ModelAsset("material", "material", 0, "material")>>
    \o (IF emission_varies_per_element
        THEN <<ModelAsset("material-no-emission", "material", 0,
                          "material-no-emission")>>
        ELSE <<>>)

\* the load context when the scene graph is reached (line 140), for a palette of
\* either kind of emission
SceneInitCommon ==
    /\ model_names = <<>>
    /\ xform_visits = <<>>
    /\ shape_refs = <<>>
    /\ scene = <<>>
    /\ subassets = {}
    /\ labeled \in {RegisterMaterials(varies) : varies \in BOOLEAN}
    /\ lphase = "decoded"
    /\ meshes = None
    /\ voxel_size \in {EffectiveSettings(global_settings, settings).voxel_size :
                          global_settings \in GlobalSettings, settings \in LoaderSettings}

\* no file is being loaded: the load context is empty
SceneIdle ==
    /\ scenes = <<>>
    /\ layers = <<>>
    /\ model_count = 0
    /\ model_names = <<>>
    /\ xform_visits = <<>>
    /\ shape_refs = <<>>
    /\ scene = <<>>
    /\ subassets = {}
    /\ labeled = <<>>
    /\ lphase = "decoded"
    /\ meshes = None
    /\ voxel_size = 1

\* no collection has been created and no model added
CollectionsIdle ==
    /\ collections = <<>>
    /\ materials = <<>>
    /\ mesh_assets = <<>>
    /\ add_call = NoAdd

\* no model is being built
GridIdle ==
    /\ model_size = [x |-> 1, y |-> 1, z |-> 1]
    /\ model_voxels = <<>>
    /\ GridInitCommon

-----------------------------------------------------------------------------
(* The grid builder as a state machine                                     *)

\* any decoded model, malformed coordinates included
InitBuild ==
    /\ model_size \in ModelSizes
    /\ model_voxels \in SparseLists(model_size)
    /\ GridInitCommon
    /\ SceneIdle
    /\ CollectionsIdle

\* a decoded model whose voxels all lie within its size
InitQuery ==
    /\ model_size \in ModelSizes
    /\ model_voxels \in ValidSparseLists(model_size)
    /\ GridInitCommon
    /\ SceneIdle
    /\ CollectionsIdle

\* a decoded model whose voxels vary in refractive index
InitTranslucency ==
    /\ model_size \in RowSizes
    /\ model_voxels \in SeqsUpTo(RowVoxels(model_size), MaxTagged)
    /\ translucent_voxels = TaggedIors
    /\ data = None
    /\ refraction_indices = <<>>
    /\ writes = <<>>
    /\ gphase = "decoded"
    /\ query = NoQuery
    /\ voxel_model = None
    /\ quads = <<>>
    /\ SceneIdle
    /\ CollectionsIdle

\* a decoded model to be meshed
InitMesh ==
    /\ \/ /\ model_size \in MeshSizes
          /\ \E fill \in Fills(model_size) : model_voxels = SparseOf(model_size, fill, 0)
       \/ /\ model_size \in SlabSizes
          /\ \E m \in MeshMaterials :
                model_voxels = SparseOf(model_size,
                                        [k \in 0..(model_size.x * model_size.y
                                                    * model_size.z - 1) |-> Some(m)], 0)
    /\ GridInitCommon
    /\ SceneIdle
    /\ CollectionsIdle

\* VoxelData built by load_from_model, under either overflow behaviour of the build
LoadFromModel ==
    /\ gphase = "decoded"
    /\ \E overflow_checks \in BOOLEAN :
         LET r == load_from_model(model_size, model_voxels, translucent_voxels,
                                  overflow_checks)
         IN  /\ gphase' = IF r.panic THEN "panicked" ELSE "built"
             /\ data' = IF r.panic THEN None
                        ELSE Some([shape |-> r.shape, voxels |-> r.voxels])
             /\ refraction_indices' = r.refraction_indices
             /\ writes' = r.writes
    /\ UNCHANGED <<model_size, model_voxels, translucent_voxels, query, voxel_model,
                   quads>>
    /\ UNCHANGED <<scenevars, collvars>>

\* VoxelQueryable::get_voxel_at_point on the built model. The queries only read
\* the model, so a behaviour makes one query: a second one would see the same grid.
GetVoxelAtPoint ==
    /\ gphase = "built"
    /\ query = NoQuery
    /\ \E position \in QueryPositions(ModelSize(Unwrap(data))) :
         query' = [kind |-> "voxel", local_point |-> <<0, 0, 0>>,
                   position |-> position,
                   result |-> get_voxel_at_point(Unwrap(data), position)]
    /\ UNCHANGED <<model_size, model_voxels, translucent_voxels, data,
                   refraction_indices, writes, gphase, voxel_model, quads>>
    /\ UNCHANGED <<scenevars, collvars>>

\* local_point_to_voxel_space followed by get_voxel_at_point
GetVoxelAtLocalPoint ==
    /\ gphase = "built"
    /\ query = NoQuery
    /\ \E local_point \in LocalPoints(ModelSize(Unwrap(data))) :
         LET position == local_point_to_voxel_space(Unwrap(data), local_point)
         IN  query' = [kind |-> "local", local_point |-> local_point,
                       position |-> position,
                       result |-> get_voxel_at_point(Unwrap(data), position)]
    /\ UNCHANGED <<model_size, model_voxels, translucent_voxels, data,
                   refraction_indices, writes, gphase, voxel_model, quads>>
    /\ UNCHANGED <<scenevars, collvars>>

\* the model registered for the grid (load/mod.rs lines 163-191)
RegisterModel ==
    /\ gphase = "built"
    /\ gphase' = "registered"
    /\ voxel_model' = Some(VoxelModelOf(Unwrap(data), refraction_indices))
    /\ UNCHANGED <<model_size, model_voxels, translucent_voxels, data,
                   refraction_indices, writes, query, quads>>
    /\ UNCHANGED <<scenevars, collvars>>

\* the mesh of the grid (load/mod.rs lines 165-167)
MeshModel ==
    /\ gphase = "built"
    /\ gphase' = "meshed"
    /\ \E mesh_outer_faces \in BOOLEAN :
          quads' = greedy_quads(MeshInput(Unwrap(data), mesh_outer_faces))
    /\ UNCHANGED <<model_size, model_voxels, translucent_voxels, data,
                   refraction_indices, writes, query, voxel_model>>
    /\ UNCHANGED <<scenevars, collvars>>

NextBuild == LoadFromModel
SpecBuild == InitBuild /\ [][NextBuild]_vars

NextQuery == LoadFromModel \/ GetVoxelAtPoint \/ GetVoxelAtLocalPoint
SpecQuery == InitQuery /\ [][NextQuery]_vars

NextTranslucency == LoadFromModel \/ RegisterModel
SpecTranslucency == InitTranslucency /\ [][NextTranslucency]_vars

NextMesh == LoadFromModel \/ MeshModel
SpecMesh == InitMesh /\ [][NextMesh]_vars

-----------------------------------------------------------------------------
(* process_vox_file as a state machine                                     *)

\* a decoded file whose Transforms vary in name
Init ==
    /\ GridIdle
    /\ CollectionsIdle
    /\ \E g \in GraphShapes(MaxXforms) :
         \E f \in [NodesOfKind(g, "Transform") -> NamingAttrs] :
           \E m \in [NodesOfKind(g, "Shape") -> 0..(MaxModels - 1)] :
             scenes = Decorate(g, f, m)
    /\ layers = DefaultLayers
    /\ model_count = MaxModels
    /\ SceneInitCommon

\* a decoded file whose Transforms vary in hidden attribute and layer
InitVisibility ==
    /\ GridIdle
    /\ CollectionsIdle
    /\ \E g \in GraphShapes(MaxVisXforms) :
         \E f \in [NodesOfKind(g, "Transform") -> VisibilityAttrs] :
           scenes = Decorate(g, f, [i \in NodesOfKind(g, "Shape") |-> 0])
    /\ layers = MixedLayers
    /\ model_count = MaxModels
    /\ SceneInitCommon

\* a decoded file whose Transforms vary in frames and name
InitFrames ==
    /\ GridIdle
    /\ CollectionsIdle
    /\ \E g \in GraphShapes(MaxVisXforms) :
         \E f \in [NodesOfKind(g, "Transform") -> FrameAttrs] :
           \E frames \in [NodesOfKind(g, "Transform") -> FrameOptions] :
             scenes = WithFrames(Decorate(g, f, [i \in NodesOfKind(g, "Shape") |-> 0]),
                                 frames)
    /\ layers = DefaultLayers
    /\ model_count = MaxModels
    /\ SceneInitCommon

\* any successfully decoded file: an arbitrary scene-node list
InitMalformed ==
    /\ GridIdle
    /\ CollectionsIdle
    /\ \E n \in 0..MaxListLen : scenes \in AnyNodeLists(<<>>, n)
    /\ layers = DefaultLayers
    /\ model_count = MaxModels
    /\ SceneInitCommon

\* lines 140-143: model_names = vec![None; model_count]; find_model_names(..)
FindModelNames ==
    /\ lphase = "decoded"
    /\ LET start == [name_for_model |-> [k \in 1..model_count |-> None],
                     xform_visits |-> <<>>, shape_refs |-> <<>>, panic |-> FALSE]
           r == IF scenes = <<>>                    \* file.scenes[0]
                THEN [start EXCEPT !.panic = TRUE]
                ELSE find_model_names(start, scenes, 0, None)
       IN  /\ lphase' = IF r.panic THEN "panicked" ELSE "named"
           /\ model_names' = r.name_for_model
           /\ xform_visits' = r.xform_visits
           /\ shape_refs' = r.shape_refs
    /\ UNCHANGED <<scenes, layers, model_count, scene, subassets, labeled, meshes,
                   voxel_size>>
    /\ UNCHANGED <<gridvars, collvars>>

\* lines 144-153: scene = parse_scene_graph(..)
ParseSceneGraph ==
    /\ lphase = "named"
    /\ LET r == parse_scene_graph([subassets |-> subassets, labeled |-> labeled,
                                   panic |-> FALSE],
                                  scenes, 0, None, model_names, layers, voxel_size)
       IN  /\ lphase' = IF r.ctx.panic THEN "panicked" ELSE "flattened"
           /\ scene' = r.scene
           /\ subassets' = r.ctx.subassets
           /\ labeled' = r.ctx.labeled
    /\ UNCHANGED <<scenes, layers, model_count, model_names, xform_visits, shape_refs,
                   meshes, voxel_size>>
    /\ UNCHANGED <<gridvars, collvars>>

\* lines 157-203: the mesh, material and model of every model, then the shared assets
RegisterModels ==
    /\ lphase = "flattened"
    /\ lphase' = "done"
    /\ labeled' = RegisterModelsFrom(labeled, model_names, model_count, 0)
                    \o <<ModelAsset("material-transmissive", "material", 0,
                                    "material-transmissive"),
                         ModelAsset("voxel-context", "context", 0, "voxel-context")>>
    /\ UNCHANGED <<scenes, layers, model_count, model_names, xform_visits, shape_refs,
                   scene, subassets, meshes, voxel_size>>
    /\ UNCHANGED <<gridvars, collvars>>

\* the same decoded file handed to the mesh loader instead of the scene loader
LoadMeshes ==
    /\ lphase = "decoded"
    /\ lphase' = "meshed"
    /\ meshes' = Some(VoxLoaderProcessVoxFile(model_count))
    /\ UNCHANGED <<scenes, layers, model_count, model_names, xform_visits, shape_refs,
                   scene, subassets, labeled, voxel_size>>
    /\ UNCHANGED <<gridvars, collvars>>

Next == FindModelNames \/ ParseSceneGraph \/ RegisterModels \/ LoadMeshes
Spec == Init /\ [][Next]_vars
SpecVisibility == InitVisibility /\ [][Next]_vars
SpecMalformed == InitMalformed /\ [][Next]_vars
SpecFrames == InitFrames /\ [][Next]_vars

-----------------------------------------------------------------------------
(* The model collections as a state machine                                *)

\* an empty world
InitCollection ==
    /\ GridIdle
    /\ SceneIdle
    /\ CollectionsIdle

\* VoxelModelCollection::new (model/mod.rs lines 60-83)
NewCollection ==
    /\ Len(collections) < MaxCollections
    /\ \E palette \in CollectionPalettes :
         LET r == new_collection(palette, materials, collections)
         IN  /\ collections' = r.collections
             /\ materials' = r.materials
    /\ UNCHANGED <<mesh_assets, add_call>>
    /\ UNCHANGED <<gridvars, scenevars>>

\* VoxelModelCollection::add (model/mod.rs lines 86-127)
AddModel ==
    /\ add_call.seq < MaxAdds
    /\ \E d \in CollectionDatas, name \in ModelNames,
          collection_handle \in CollectionHandles :
         LET r == add_model(d, name, collection_handle, mesh_assets, materials,
                            collections)
         IN  /\ collections' = r.collections
             /\ materials' = r.materials
             /\ mesh_assets' = r.mesh_assets
             /\ add_call' = [seq |-> add_call.seq + 1, name |-> name,
                             collection_handle |-> collection_handle,
                             result |-> r.result]
    /\ UNCHANGED <<gridvars, scenevars>>

NextCollection == NewCollection \/ AddModel
SpecCollection == InitCollection /\ [][NextCollection]_vars

-----------------------------------------------------------------------------
(* Properties of the grid builder and the voxel query interface            *)

AllInBounds == \A k \in 1..Len(model_voxels) : InBounds(model_size, model_voxels[k])

\* the cell <<x, y, z>> of the padded grid that a linear index denotes
CellOf(shape, index) ==
    <<index % shape.dims[1],
      (index \div shape.dims[1]) % shape.dims[2],
      index \div (shape.dims[1] * shape.dims[2])>>
IsPaddingCell(shape, cell) ==
    \E a \in 1..3 : cell[a] = 0 \/ cell[a] = shape.dims[a] - 1

SameCoordinate(v, w) == v.x = w.x /\ v.y = w.y /\ v.z = w.z

\* C1: for a model whose sparse voxels all lie within its size, load_from_model
\* returns a grid of extents (x + 2, z + 2, y + 2), and the voxels of two distinct
\* source coordinates are written to two distinct cells, none a padding cell.
C1_PaddedExtentsDistinctCells ==
    (gphase # "decoded" /\ AllInBounds) =>
        /\ gphase = "built"
        /\ LET d == Unwrap(data) IN
            /\ d.shape.dims = <<model_size.x + 2, model_size.z + 2, model_size.y + 2>>
            /\ DOMAIN d.voxels =
                 0..((model_size.x + 2) * (model_size.z + 2) * (model_size.y + 2) - 1)
            /\ Len(writes) = Len(model_voxels)
            /\ \A k \in 1..Len(writes) :
                 /\ writes[k] \in DOMAIN d.voxels
                 /\ ~IsPaddingCell(d.shape, CellOf(d.shape, writes[k]))
            /\ \A j, k \in 1..Len(writes) :
                 ~SameCoordinate(model_voxels[j], model_voxels[k])
                     => writes[j] # writes[k]

\* C1 witness: a non-cubic model with two voxels at distinct in-bounds coordinates
\* has been built.
C1_Witness ==
    /\ gphase = "built"
    /\ AllInBounds
    /\ model_size.z = 2
    /\ Len(model_voxels) = 2
    /\ ~SameCoordinate(model_voxels[1], model_voxels[2])

\* C2: when some sparse voxel lies outside the model's size, the build does not
\* fault, writes nothing outside the padded grid, and leaves every padding cell
\* holding the empty sentinel.
C2_MalformedVoxelDropped ==
    (gphase # "decoded" /\ ~AllInBounds) =>
        /\ gphase = "built"
        /\ LET d == Unwrap(data) IN
            \A index \in DOMAIN d.voxels :
                IsPaddingCell(d.shape, CellOf(d.shape, index))
                    => d.voxels[index] = EMPTY_VOXEL

\* the voxel-space coordinate of a sparse voxel: the grid axes are (x flipped, z, y)
VoxelSpaceOf(size, v) == <<size.x - 1 - v.x, v.z, v.y>>
UnpaddedSize == <<model_size.x, model_size.z, model_size.y>>
InBox(p) == \A a \in 1..3 : 0 <= p[a] /\ p[a] < UnpaddedSize[a]

\* the voxel last written at voxel-space point p, the empty sentinel when none was
WrittenAt(p) ==
    LET ks == {k \in 1..Len(model_voxels) : VoxelSpaceOf(model_size, model_voxels[k]) = p}
    IN  IF ks = {} THEN EMPTY_VOXEL
        ELSE LET k == CHOOSE m \in ks : \A n \in ks : n <= m
             IN  Voxel(model_voxels[k].i, model_voxels[k].i \in DOMAIN translucent_voxels)

\* C3: round trip. get_voxel_at_point on a voxel-space point within [0, size)
\* returns the material index and translucency flag written there (the empty
\* sentinel where nothing was written); on any other point it returns no voxel.
C3_RoundTrip ==
    query.kind = "voxel" =>
        query.result = IF InBox(query.position)
                       THEN Some(WrittenAt(query.position))
                       ELSE None

\* C3 witness: a query inside a model of two voxels returned a translucent voxel.
C3_Witness ==
    /\ query.kind = "voxel"
    /\ Len(model_voxels) = 2
    /\ model_size.y = 2
    /\ InBox(query.position)
    /\ IsSome(query.result)
    /\ Unwrap(query.result).is_translucent
    /\ Unwrap(query.result).index = 2

\* a local point (in halves) outside the model's unpadded box:
\* p + size/2 < 0 or p + size/2 >= size on some axis
LocalOutside(local_point) ==
    \E a \in 1..3 :
        \/ local_point[a] + UnpaddedSize[a] < 0
        \/ local_point[a] + UnpaddedSize[a] >= 2 * UnpaddedSize[a]

\* C4: a local point outside the model's unpadded box, converted with
\* local_point_to_voxel_space and looked up with get_voxel_at_point, yields no voxel.
C4_OutsideLocalPointNoVoxel ==
    (query.kind = "local" /\ LocalOutside(query.local_point)) => query.result = None

-----------------------------------------------------------------------------
(* Properties of the scene graph flattener                                 *)

PassOneDone == lphase \in {"named", "flattened", "done"}
PassTwoDone == lphase \in {"flattened", "done"}

\* the Transforms whose Group child lists the node i
XformParents(i) ==
    {t \in 0..(Len(scenes) - 1) :
        /\ At(scenes, t).kind = "Transform"
        /\ At(scenes, At(scenes, t).child).kind = "Group"
        /\ \E k \in 1..Len(At(scenes, At(scenes, t).child).children) :
               At(scenes, At(scenes, t).child).children[k] = i}

\* the own names of the named Transforms from the root down to Transform i
RECURSIVE NameChain(_)
NameChain(i) ==
    (IF XformParents(i) = {} THEN <<>>
     ELSE NameChain(CHOOSE t \in XformParents(i) : TRUE))
    \o (IF IsSome(At(scenes, i).name) THEN <<Unwrap(At(scenes, i).name)>> ELSE <<>>)

RECURSIVE JoinSlash(_)
JoinSlash(segments) ==
    IF Len(segments) = 1 THEN segments[1]
    ELSE segments[1] \o "/" \o JoinSlash(Tail(segments))

\* the slash-joined own names of the named Transforms on the chain of Transform i
PathName(i) == IF NameChain(i) = <<>> THEN None ELSE Some(JoinSlash(NameChain(i)))

\* C5: the accumulated name pass 1 computes for every Transform is the slash-joined
\* sequence of the own names of its named ancestors and itself, root first; unnamed
\* Transforms contribute no segment and pass the name of their parent on unchanged.
C5_AccumulatedNameIsPath ==
    PassOneDone =>
        /\ {xform_visits[k].node : k \in 1..Len(xform_visits)}
              = {i - 1 : i \in NodesOfKind(scenes, "Transform")}
        /\ \A k \in 1..Len(xform_visits) :
              xform_visits[k].accumulated = PathName(xform_visits[k].node)

\* C5 witness: an unnamed Transform below two named ones received both names, joined.
C5_Witness ==
    /\ lphase = "named"
    /\ \E k \in 1..Len(xform_visits) :
          /\ At(scenes, xform_visits[k].node).name = None
          /\ xform_visits[k].accumulated = Some("A/model-1")

\* C6 as claimed: a Shape reached under a Transform whose accumulated name is present
\* (own or inherited) has that accumulated name assigned to its model id.
C6_AccumulatedNameAssigned ==
    PassOneDone =>
        \A k \in 1..Len(shape_refs) :
            IsSome(shape_refs[k].accumulated)
                => shape_refs[k].after = shape_refs[k].accumulated

\* C6 amended: a Shape reached under a Transform that has a name of its own has the
\* Transform's accumulated name assigned to its model id; under a Transform without
\* a name of its own nothing is assigned, whatever name it inherits.
C6_OwnNamedXformAssigns ==
    PassOneDone =>
        /\ {shape_refs[k].shape : k \in 1..Len(shape_refs)}
              = {i - 1 : i \in NodesOfKind(scenes, "Shape")}
        /\ \A k \in 1..Len(shape_refs) :
              LET ref == shape_refs[k] IN
              /\ ref.model_id = At(scenes, ref.shape).models[1]
              /\ IF IsSome(At(scenes, ref.xform).name)
                 THEN ref.after = PathName(ref.xform)
                 ELSE ref.after = ref.before

\* C6 witness: a Shape was reached under an unnamed Transform that inherits a name,
\* and its model stayed unnamed.
C6_Witness ==
    /\ lphase = "named"
    /\ \E k \in 1..Len(shape_refs) :
          /\ At(scenes, shape_refs[k].xform).name = None
          /\ shape_refs[k].accumulated = Some("A")
          /\ shape_refs[k].after = None

\* the Shape references below Transform t in depth-first order
RECURSIVE DfsRefs(_)
RECURSIVE DfsRefsOfAll(_)
DfsRefs(t) ==
    LET child == At(scenes, At(scenes, t).child) IN
    CASE child.kind = "Shape" -> <<[xform |-> t, model_id |-> child.models[1]]>>
      [] child.kind = "Group" -> DfsRefsOfAll(child.children)
      [] OTHER -> <<>>
DfsRefsOfAll(children) ==
    IF children = <<>> THEN <<>>
    ELSE DfsRefs(Head(children)) \o DfsRefsOfAll(Tail(children))

\* the positions in DfsRefs(0) of the references to model m under a named Transform
NamedRefs(m) ==
    {k \in 1..Len(DfsRefs(0)) :
        /\ DfsRefs(0)[k].model_id = m
        /\ IsSome(At(scenes, DfsRefs(0)[k].xform).name)}
LastNamedRef(m) ==
    IF NamedRefs(m) = {} THEN None
    ELSE PathName(DfsRefs(0)[CHOOSE k \in NamedRefs(m) : \A j \in NamedRefs(m) : j <= k].xform)

\* C7: after pass 1 the name of every model is the one carried by the last
\* name-carrying Shape reference to it in depth-first order (none when no reference
\* carries a name); references that carry no name leave it as it was.
C7_LastNamedReferenceWins ==
    PassOneDone =>
        /\ Len(model_names) = model_count
        /\ \A m \in 0..(model_count - 1) : At(model_names, m) = LastNamedRef(m)

\* C7 witness: a model referenced under two differently named Transforms carries
\* the second name.
C7_Witness ==
    /\ lphase = "named"
    /\ \E m \in 0..(model_count - 1) :
          \E j, k \in NamedRefs(m) :
              /\ j < k
              /\ PathName(DfsRefs(0)[j].xform) # PathName(DfsRefs(0)[k].xform)
              /\ At(model_names, m) = PathName(DfsRefs(0)[k].xform)

\* the models registered by the loader
RegisteredModels == {labeled[k] : k \in {j \in 1..Len(labeled) : labeled[j].kind = "model"}}

\* C8: no two models of one loaded file are registered under the same name.
C8_ModelNamesUnique ==
    lphase = "done" =>
        \A a, b \in RegisteredModels : a.index # b.index => a.name # b.name

\* the asset a label resolves to: the one inserted last under it
Resolve(label) ==
    LET ks == {k \in 1..Len(labeled) : labeled[k].label = label}
    IN  IF ks = {} THEN None
        ELSE Some(labeled[CHOOSE k \in ks : \A j \in ks : j <= k])

RECURSIVE EntitiesOf(_)
EntitiesOf(node) ==
    {node} \cup UNION {EntitiesOf(node.children[k]) : k \in 1..Len(node.children)}
SceneEntities(built) == UNION {EntitiesOf(built[k]) : k \in 1..Len(built)}
\* every entity of the root scene and of the registered sub-scenes
AllEntities ==
    SceneEntities(scene)
    \cup UNION {SceneEntities(labeled[k].scene) : k \in 1..Len(labeled)}

\* C9: every Shape entity references its model by the name pass 1 gave its model id
\* (model-{id} when none), and that reference resolves to the registered mesh,
\* material and model of that very model id.
C9_ShapeResolvesToItsModel ==
    lphase = "done" =>
        \A e \in AllEntities :
            IsSome(e.model) =>
                LET ref      == Unwrap(e.model)
                    model_id == At(scenes, ref.shape).models[1]
                    name     == IF IsSome(At(model_names, model_id))
                                THEN Unwrap(At(model_names, model_id))
                                ELSE "model-" \o ToString(model_id)
                IN  /\ ref.model = name \o "@model"
                    /\ ref.mesh = name \o "@mesh"
                    /\ ref.material = name \o "@material"
                    /\ \A label \in {ref.model, ref.mesh, ref.material} :
                          /\ IsSome(Resolve(label))
                          /\ Unwrap(Resolve(label)).index = model_id

\* C10: a built Transform node is Hidden exactly when its _hidden attribute is "1"
\* or its layer id is in the layer table and names a hidden layer; else Inherited.
C10_VisibilityFromNodeOrLayer ==
    PassTwoDone =>
        /\ {e.source : e \in {x \in AllEntities : x.origin \in {"xform", "root"}}}
              = {i - 1 : i \in NodesOfKind(scenes, "Transform")}
        /\ \A e \in AllEntities :
              e.origin \in {"xform", "root"} =>
                  LET node == At(scenes, e.source) IN
                  e.visibility =
                      Some(IF \/ node.hidden = Some("1")
                              \/ /\ node.layer_id < Len(layers)
                                 /\ At(layers, node.layer_id).is_hidden
                           THEN "Hidden" ELSE "Inherited")

\* C10 witness: a Transform with _hidden "0" on a hidden layer was built Hidden, next
\* to one with an invalid _hidden string and a layer id outside the table, Inherited.
C10_Witness ==
    /\ lphase = "flattened"
    /\ \E e, f \in AllEntities :
          /\ e.origin = "xform"
          /\ At(scenes, e.source).hidden = Some("0")
          /\ At(scenes, e.source).layer_id = 1
          /\ e.visibility = Some("Hidden")
          /\ f.origin = "root"
          /\ At(scenes, f.source).hidden = Some("x")
          /\ At(scenes, f.source).layer_id >= Len(layers)
          /\ f.visibility = Some("Inherited")

\* the Transforms that have a name of their own, and those of them below the root
NamedXforms == {i - 1 : i \in {j \in NodesOfKind(scenes, "Transform") : IsSome(scenes[j].name)}}
NamedInnerXforms == NamedXforms \ {0}
\* the sub-scenes registered under a label, in order of generation
SubScenes(label) ==
    {k \in 1..Len(labeled) : labeled[k].kind = "scene" /\ labeled[k].label = label}

\* C11: pass 2 generates exactly one sub-scene for each distinct accumulated name of
\* the named Transforms it builds below the root, however many nodes carry that name
\* and although a named node is traversed again inside every enclosing sub-scene; no
\* label ever receives a second sub-scene.
C11_SubSceneGeneratedOnce ==
    PassTwoDone =>
        /\ \A i \in NamedInnerXforms : Cardinality(SubScenes(Unwrap(PathName(i)))) = 1
        /\ \A k \in 1..Len(labeled) :
              labeled[k].kind = "scene" =>
                  /\ Cardinality(SubScenes(labeled[k].label)) = 1
                  /\ \E i \in NamedInnerXforms : PathName(i) = Some(labeled[k].label)
        /\ subassets = {Unwrap(PathName(i)) : i \in NamedInnerXforms}

\* C11 witness: a named Transform lies below another named Transform, so it was
\* traversed again while the enclosing sub-scene was built; each name has one
\* sub-scene.
C11_Witness ==
    /\ lphase = "flattened"
    /\ \E i, j \in NamedInnerXforms :
          /\ i \in XformParents(j)
          /\ Cardinality(SubScenes(Unwrap(PathName(i)))) = 1
          /\ Cardinality(SubScenes(Unwrap(PathName(j)))) = 1

\* C12: after a load every accumulated name of a named Transform, the root Transform
\* included, resolves to a sub-scene registered under that name.
C12_EveryNameHasSubScene ==
    lphase = "done" =>
        \A i \in NamedXforms :
            /\ IsSome(Resolve(Unwrap(PathName(i))))
            /\ Unwrap(Resolve(Unwrap(PathName(i)))).kind = "scene"

\* C13: whatever scene-node list a decoded file holds, neither pass nor the model
\* registration panics.
C13_ProcessingNeverPanics == lphase # "panicked"

\* the nodes reached from node i along child and children links
RECURSIVE Reach(_)
Reach(i) ==
    IF i >= Len(scenes) THEN {}
    ELSE {i} \cup
         (CASE At(scenes, i).kind = "Transform" -> Reach(At(scenes, i).child)
            [] At(scenes, i).kind = "Group" ->
                  UNION {Reach(At(scenes, i).children[k]) :
                            k \in 1..Len(At(scenes, i).children)}
            [] OTHER -> {})
ReachableShapes ==
    {i \in Reach(0) : At(scenes, i).kind = "Shape" /\ At(scenes, i).models # <<>>}
\* the entities of the root scene that carry a model reference
ShapeEntities == {e \in SceneEntities(scene) : IsSome(e.model)}

\* C18: every Shape reachable from the root, also through a Group or Shape standing
\* where a Transform is expected or a Transform directly below a Transform, appears in
\* the built tree with the reference to its model.
C18_DegenerateLinksKeepShapes ==
    PassTwoDone =>
        \A i \in ReachableShapes :
            \E e \in ShapeEntities :
                /\ Unwrap(e.model).shape = i
                /\ Unwrap(e.model).model
                      = ShapeModelName(model_names, At(scenes, i).models[1]) \o "@model"

\* C19: the Shapes reached by find_model_names are the Shapes materialized by
\* parse_scene_graph, each with the same accumulated parent name in both walks.
C19_PassTwoMirrorsPassOne ==
    PassTwoDone =>
        {<<shape_refs[k].shape, shape_refs[k].accumulated>> : k \in 1..Len(shape_refs)}
            = {<<Unwrap(e.model).shape, Unwrap(e.model).parent_name>> : e \in ShapeEntities}

\* the translation frame 0 of Transform i stands for: (-x, z, y) scaled by the voxel
\* size, none without position
FrameZeroTranslation(i) ==
    LET frame == At(scenes, i).frames[1] IN
    IF frame.position = None THEN <<0, 0, 0>>
    ELSE <<(0 - Unwrap(frame.position)[1]) * voxel_size,
           Unwrap(frame.position)[3] * voxel_size,
           Unwrap(frame.position)[2] * voxel_size>>
\* the entities at the root of the main scene and of the sub-scenes
RootEntities == {e \in AllEntities : e.origin = "root"}

\* C20: every Transform built below the root of a scene carries the transform of
\* frame 0 of its source node, whatever its later frames are; the root of the main
\* scene and of every named sub-scene carries the identity, whatever the frames of
\* its source node are.
C20_FrameZeroBelowRootIdentityAtRoot ==
    PassTwoDone =>
        /\ {e.source : e \in {x \in AllEntities : x.origin = "xform"}}
              = {i - 1 : i \in NodesOfKind(scenes, "Transform")} \ {0}
        /\ 0 \in {e.source : e \in RootEntities}
        /\ {e.source : e \in RootEntities} \subseteq {0} \cup NamedInnerXforms
        /\ \A e \in AllEntities :
              /\ e.origin = "xform" => e.transform = Some(FrameZeroTranslation(e.source))
              /\ e.origin = "root" => e.transform = Some(<<0, 0, 0>>)

\* C20 witness: a named Transform with two different frames was built below the root
\* with the transform of its frame 0 and, as the root of its sub-scene, with the
\* identity.
C20_Witness ==
    /\ lphase = "flattened"
    /\ \E e, f \in AllEntities :
          /\ e.origin = "xform"
          /\ f.origin = "root"
          /\ e.source = f.source
          /\ Len(At(scenes, e.source).frames) = 2
          /\ voxel_size = 2
          /\ e.transform = Some(<<-2, 6, 4>>)
          /\ f.transform = Some(<<0, 0, 0>>)

\* the label of positional addressing
PositionalLabel(n) == "model" \o ToString(n)

\* C17: for every model index n of the file, 0 included, an asset is registered under
\* the label model{n} and it is the nth model: by the scene loader once the load is
\* done, and by the mesh loader.
C17_PositionalLabelRegistered ==
    /\ lphase = "done" =>
          \A n \in 0..(model_count - 1) :
              /\ IsSome(Resolve(PositionalLabel(n)))
              /\ Unwrap(Resolve(PositionalLabel(n))).index = n
    /\ lphase = "meshed" =>
          \A n \in 0..(model_count - 1) :
              \E k \in 1..Len(Unwrap(meshes).labeled) :
                  /\ Unwrap(meshes).labeled[k].label = PositionalLabel(n)
                  /\ Unwrap(meshes).labeled[k].index = n

\* the sparse voxels of the model whose material has a refractive index entry
TaggedVoxels == {k \in 1..Len(model_voxels) : model_voxels[k].i \in DOMAIN translucent_voxels}
\* the sum of the refractive indices of the tagged voxels among the first k
RECURSIVE TaggedIorSum(_)
TaggedIorSum(k) ==
    IF k = 0 THEN 0
    ELSE TaggedIorSum(k - 1)
         + (IF k \in TaggedVoxels THEN translucent_voxels[model_voxels[k].i] ELSE 0)

\* C14: a registered model has has_translucency = true and a refractive index equal
\* to the arithmetic mean of the refractive indices of its tagged voxels exactly
\* when it has a tagged voxel; without one it has has_translucency = false, no
\* refractive index and a material with transmission switched off.
C14_TranslucencyAndAverageIor ==
    gphase = "registered" =>
        LET m == Unwrap(voxel_model)
            n == Cardinality(TaggedVoxels)
        IN  /\ m.has_translucency = (n > 0)
            /\ n > 0 =>
                  /\ IsSome(m.ior)
                  /\ Unwrap(m.ior).sum * n = TaggedIorSum(Len(model_voxels)) * Unwrap(m.ior).count
                  /\ m.material.ior = m.ior
                  /\ m.material.specular_transmission = "palette"
            /\ n = 0 =>
                  /\ m.ior = None
                  /\ m.material.ior = None
                  /\ m.material.specular_transmission = "off"

\* C14 witness: a model with three tagged voxels of refractive indices 1.1, 1.3 and
\* 1.5 was registered with has_translucency and the refractive index 1.3.
C14_Witness ==
    /\ gphase = "registered"
    /\ Cardinality(TaggedVoxels) = 3
    /\ {translucent_voxels[model_voxels[k].i] : k \in TaggedVoxels} = {11, 13, 15}
    /\ Unwrap(voxel_model).has_translucency
    /\ Unwrap(Unwrap(voxel_model).ior).sum = 13 * Unwrap(Unwrap(voxel_model).ior).count

\* the model is a slab: one extent is 1, the other two are equal, and every cell
\* holds a voxel of the same material
IsSlab ==
    /\ \/ model_size.z = 1 /\ model_size.x = model_size.y
       \/ model_size.y = 1 /\ model_size.x = model_size.z
       \/ model_size.x = 1 /\ model_size.y = model_size.z
    /\ Len(model_voxels) = model_size.x * model_size.y * model_size.z
    /\ \A j, k \in 1..Len(model_voxels) :
          /\ model_voxels[j].i = model_voxels[k].i
          /\ j # k => <<model_voxels[j].x, model_voxels[j].y, model_voxels[j].z>>
                        # <<model_voxels[k].x, model_voxels[k].y, model_voxels[k].z>>
\* the side length N of a slab
SlabSide == IF model_size.x = 1 THEN model_size.y ELSE model_size.x
QuadArea(q) == q.width * q.height
\* the number of voxel faces on the side of the model normal to n_axis
SideArea(n_axis) ==
    DataSize(Unwrap(data))[UAxis(n_axis)] * DataSize(Unwrap(data))[VAxis(n_axis)]

\* C15 as claimed: the mesh of an N x N x 1 slab of one material has exactly 2
\* quads, each covering N x N faces.
C15_SlabHasTwoQuads ==
    (gphase = "meshed" /\ IsSlab) =>
        /\ Len(quads) = 2
        /\ \A k \in 1..Len(quads) : QuadArea(quads[k]) = SlabSide * SlabSide

\* C15 amended: the mesh of an N x N x 1 slab of one material has exactly 6 quads,
\* one for each face direction, each covering the whole side of the slab it lies
\* on: N x N for the two large sides, N x 1 for the four small ones.
C15_SlabHasSixQuads ==
    (gphase = "meshed" /\ IsSlab) =>
        /\ Len(quads) = 6
        /\ \A f \in 1..Len(Faces) :
              \E k \in 1..Len(quads) :
                  /\ quads[k].face = Faces[f]
                  /\ QuadArea(quads[k]) = SideArea(Faces[f].n_axis)
                  /\ \A c \in QuadCells(quads[k]) :
                        VoxelAt(Unwrap(data), c).index = model_voxels[1].i
        /\ Cardinality({k \in 1..Len(quads) : QuadArea(quads[k]) = SlabSide * SlabSide})
              = (IF SlabSide = 1 THEN 6 ELSE 2)
        /\ Cardinality({k \in 1..Len(quads) : QuadArea(quads[k]) = SlabSide})
              = (IF SlabSide = 1 THEN 6 ELSE 4)

\* C15 witness: a slab with N > 1 was meshed into 6 quads.
C15_Witness ==
    /\ gphase = "meshed"
    /\ IsSlab
    /\ SlabSide > 1
    /\ Len(quads) = 6

\* the cells of the grid that hold a voxel
VisibleCells ==
    {c \in {InteriorCells(Unwrap(data), 1)[k] :
               k \in 1..Len(InteriorCells(Unwrap(data), 1))} :
        VoxelAt(Unwrap(data), c).index # EmptyIndex}
\* the pairs <<a, b, axis>> of voxels adjacent along axis whose merge values differ
DifferingNeighbours ==
    {<<a, Step(a, axis, 1), axis>> : a \in VisibleCells, axis \in 1..3} \cap
    {p \in VisibleCells \X VisibleCells \X (1..3) :
        VoxelAt(Unwrap(data), p[1]) # VoxelAt(Unwrap(data), p[2])}
\* a quad covers the face of the voxel at cell that looks along the axis in direction sign
Emitted(cell, axis, sign) ==
    \E k \in 1..Len(quads) :
        /\ quads[k].face = [n_axis |-> axis, n_sign |-> sign]
        /\ cell \in QuadCells(quads[k])
CoveredTogether(a, b) ==
    \E k \in 1..Len(quads) : a \in QuadCells(quads[k]) /\ b \in QuadCells(quads[k])
IsOpaque(cell) == ~VoxelAt(Unwrap(data), cell).is_translucent

-----------------------------------------------------------------------------
(* The collection of generated models                                      *)

\* the 1-based positions of the models of a collection that carry the name
PositionsOf(collection, name) ==
    {i \in 1..Len(collection.models) : collection.models[i].name = name}
\* the model with the name that was pushed last, if any
LastAdded(collection, name) ==
    LET positions == PositionsOf(collection, name)
    IN  IF positions = {} THEN None
        ELSE Some(collection.models[CHOOSE i \in positions :
                                        \A j \in positions : j <= i])

\* every entry of index_for_model_name points into models, at a model of that name
IndexPointsAtItsName ==
    \A h \in 1..Len(collections) :
        \A name \in DOMAIN collections[h].index_for_model_name :
            LET index == collections[h].index_for_model_name[name]
            IN  /\ index \in 0..(Len(collections[h].models) - 1)
                /\ At(collections[h].models, index).name = name

\* model(name) is the model of that name pushed last, and none for a name that
\* no model carries
ModelIsLastAdded ==
    \A h \in 1..Len(collections) :
        \A name \in ModelNames \cup {"never added"} :
            model(collections[h], name) = LastAdded(collections[h], name)

\* a step keeps every collection and every model already in it; models grows at
\* most by the model an add returned, at its end, and that model is then what
\* model(name) returns
ModelsGrowByAppending ==
    /\ Len(collections') >= Len(collections)
    /\ \A h \in 1..Len(collections) :
          \/ collections'[h] = collections[h]
          \/ /\ add_call'.seq = add_call.seq + 1
             /\ add_call'.collection_handle = h - 1
             /\ IsSome(add_call'.result)
             /\ collections'[h].models
                   = Append(collections[h].models, Unwrap(add_call'.result))
             /\ model(collections'[h], add_call'.name) = add_call'.result
             /\ Unwrap(add_call'.result).name = add_call'.name

\* an add on a handle that does not resolve returns None and changes no collection
UnresolvedAddChangesNothing ==
    (/\ add_call'.seq = add_call.seq + 1
     /\ ~IsSome(AssetsGet(collections, add_call'.collection_handle)))
        => /\ add_call'.result = None
           /\ collections' = collections

\* C21: after any sequence of add operations every entry of index_for_model_name
\* maps a name to a position within models whose model has that name, model(name)
\* returns the model of that name added most recently (none for a name never
\* added), models only grows by appending, and an add on a collection handle that
\* does not resolve returns None and leaves every collection unchanged.
C21_CollectionIndexConsistent ==
    /\ [](IndexPointsAtItsName /\ ModelIsLastAdded)
    /\ [][ModelsGrowByAppending /\ UnresolvedAddChangesNothing]_vars

\* C21 witness: a collection holds two models of one name with different data,
\* added one after the other, and the last add named a handle that does not
\* resolve and returned None.
C21_Witness ==
    /\ add_call.seq = MaxAdds
    /\ add_call.result = None
    /\ ~IsSome(AssetsGet(collections, add_call.collection_handle))
    /\ \E h \in 1..Len(collections) :
          /\ Len(collections[h].models) = 2
          /\ collections[h].models[1].name = collections[h].models[2].name
          /\ collections[h].models[1].data # collections[h].models[2].data
          /\ collections[h].models[2].has_translucency

====
